---- MODULE Spec2Model ----
(***************************************************************************)
(* Model of ha-sensor-streamer: the sensor poller and its RwLock-protected *)
(* cache (main.rs), the MJPEG stream handler (main.rs, mjpeg_stream) and   *)
(* the RTSP need-data callback (rtsp.rs, run_rtsp_server).                 *)
(***************************************************************************)
EXTENDS Integers, Sequences, FiniteSets, TLC

\* ---------------------------------------------------------------- bounds
NumSensors == 2      \* watched sensor ids are 1..NumSensors
NumValues == 2       \* values an upstream fetch can return are 1..NumValues
NumMjpeg == 2        \* MJPEG consumers
NumClients == 2      \* RTSP clients
MaxTicks == 2        \* ticks of the MJPEG loops followed, over all consumers
MaxCalls == 2        \* need-data invocations followed, over all RTSP medias
NumLines == 2        \* lines of the generator

\* ------------------------------------------------------ program constants
NsPerSec == 1000000000
MsPerSec == 1000
I32Max == 2147483647
DelimLen == 2
Shared == TRUE

\* VIDEO_FPS values: any u64 parses.  5 is the default; 2000 and 2000000000
\* are accepted values above 1000 and above 1e9.
DefaultFps == 5
FpsValues == {DefaultFps, 2000, 2000000000}
Modes == {"mjpeg", "rtsp"}

None == 0            \* key absent from the HashMap
Pending == -1        \* bucket not yet visited by HashMap::clone

Sensors == 1..NumSensors
Values == 1..NumValues
MjIds == 1..NumMjpeg
ClientIds == 1..NumClients
MediaIds == 1..NumClients

\* get_required_sensors(): the distinct ids, sorted ascending
SensorsList == [i \in 1..NumSensors |-> i]

EmptyMap == [k \in Sensors |-> None]
Unvisited == [k \in Sensors |-> Pending]
NoSnapshot == Unvisited   \* no copy of the map taken in this tick
Keys(m) == {k \in Sensors : m[k] # None}

VARIABLES
    mode, fps,                     \* Config.stream_format, Config.video_fps
    watch,                         \* sensors_list: the ids the poller fetches
    faults,                        \* what fails in this run of the process
    phase, exitStatus,             \* main(): how far it got, how it returned
    cache,                         \* sensor_values: HashMap behind the RwLock
    writer, readers,               \* RwLock state: write guard held, read guards held
    pPc, pIdx, pVal,               \* polling task: position, index in list, fetched val
    pCycle,                        \* history: ids fetched in this pass over the list
    lastOk,                        \* history: value of the latest Ok fetch per id
    fetchFailed,                   \* history: ids whose latest fetch returned Err
    mjPc, mjSnap, mjAtLock,        \* MJPEG stream: position, val_map, cache at read()
    mjFrame, genLog, out, closedBy,\* jpeg_bytes, per-tick results, chunks yielded
    mjStale, mStale,               \* the map each line of the frame was resolved against
    client, clientMedia,           \* RTSP clients and the media that serves them
    mediaCount, mPc, mSnap, mAtLock,
    timestamp, pushed,             \* per-media counter and buffers handed to push_buffer
    locale, fontSize, lines,       \* Config.locale, Config.font_size, Config.lines
    required,                      \* sensors_to_watch = get_required_sensors()
    gen,                           \* the ImageGenerator, NoGen until it is built
    clock,                         \* what Local::now() returns
    tpl, rSnap,                    \* resolve_line: template, sensor_values
    rPc, rNow, rIn, rAcc, rUsed    \* resolve_line: position, now, input left,
                                   \* text produced, instants formatted so far

cfgVars == <<mode, fps, watch>>
bootVars == <<faults, phase, exitStatus>>
confVars == <<locale, fontSize, lines, required>>
resolveVars == <<tpl, rSnap, rPc, rNow, rIn, rAcc, rUsed>>
renderVars == <<confVars, gen, clock, resolveVars>>
lockVars == <<writer, readers>>
pollVars == <<pPc, pIdx, pVal, pCycle, lastOk, fetchFailed>>
mjVars == <<mjPc, mjSnap, mjAtLock, mjFrame, mjStale, genLog, out, closedBy>>
rtspVars == <<client, clientMedia, mediaCount, mPc, mSnap, mAtLock, mStale, timestamp, pushed>>
vars == <<cfgVars, bootVars, renderVars, cache, lockVars, pollVars, mjVars, rtspVars>>

\* ------------------------------------------------------------ RwLock
CanRead == ~writer
\* faulty variant: write() does not wait for the read guards
CanWrite_IgnoresReaders == ~writer

CanWrite == ~writer /\ readers = {}

MjReader(c) == <<"mjpeg", c>>
MediaReader(m) == <<"media", m>>

\* ------------------------------------------------------- pure helpers
\* `as i32` of a u64 below 2^32 (two's-complement narrowing)
AsI32(x) == IF x <= I32Max THEN x ELSE (x - I32Max) - I32Max - 2

\* 1_000_000_000 / (fps as u64) with fps an i32: a negative i32 sign-extends
\* to at least 2^64 - 2^31, which exceeds 1e9, so the quotient is 0; a zero
\* divisor panics (no value).
FrameDuration(f) == LET i == AsI32(f) IN IF i < 0 THEN 0 ELSE NsPerSec \div i

\* 1000 / fps, the period handed to tokio::time::interval
TickPeriodMs(f) == MsPerSec \div f

\* interval() panics when the period is zero
IntervalPanics(f) == TickPeriodMs(f) = 0

\* faulty variant: after the last entry the list is started again at once
PollAdvance_NoSleep ==
    IF pIdx < Len(watch)
    THEN pPc' = "fetch" /\ pIdx' = pIdx + 1
    ELSE pPc' = "fetch" /\ pIdx' = 1

\* position after the current list entry: next entry, or the sleep
PollAdvance ==
    IF pIdx < Len(watch)
    THEN pPc' = "fetch" /\ pIdx' = pIdx + 1
    ELSE pPc' = "sleep" /\ pIdx' = pIdx

RECURSIVE SumLen(_, _)
SumLen(f, S) ==
    IF S = {} THEN 0
    ELSE LET x == CHOOSE y \in S : TRUE IN Len(f[x]) + SumLen(f, S \ {x})

\* first bucket the copy has not visited yet
NextBucket(snap) == CHOOSE k \in Sensors :
    snap[k] = Pending /\ \A j \in Sensors : snap[j] = Pending => k <= j

CountOk(log) == Cardinality({i \in 1..Len(log) : log[i] = "ok"})

MjState(c) ==
    IF mjPc[c] = "idle" THEN "Idle"
    ELSE IF mjPc[c] = "closed" THEN "Closed"
    ELSE "Streaming"

Alive(m) == mPc[m] \notin {"none", "dead"}
Connected(m) == {k \in ClientIds : client[k] = "connected" /\ clientMedia[k] = m}

\* ------------------------------------------------- text and templates
\* A text is a sequence of tokens.  A token is one character, or a group of
\* characters that the two regexes and the number parser treat as a unit.
OpenSensor == "{sensor."      \* the characters `{sensor.`
OpenTime == "{time:"          \* the characters `{time:`
Close == "}"
Hour == "%H"                  \* a strftime specifier
Missing == "?"                \* unwrap_or_else(|| "?")
SensorPrefix == "sensor."     \* format!("sensor.{}", ..)
Dot == "."
Comma == ","

DigitOf == <<"1", "2", "3", "4">>
Digits == {DigitOf[i] : i \in 1..Len(DigitOf)}
WordChars == Digits \cup {"a", "b", "e", "inf"}          \* \w
IdChar(t) == t \in WordChars \cup {Dot, SensorPrefix}     \* [\w\.]

SeqsUpTo(S, n) == UNION {[1..k -> S] : k \in 0..n}

\* the texts of a sequence, one after the other
RECURSIVE Flatten(_)
Flatten(ss) == IF ss = <<>> THEN <<>> ELSE Head(ss) \o Flatten(Tail(ss))

\* a text with the origin of each token: sub is TRUE for a token that a
\* substitution produced, FALSE for a token of the template
Mark(s, flag) == [i \in 1..Len(s) |-> [t |-> s[i], sub |-> flag]]
Text(m) == [i \in 1..Len(m) |-> m[i].t]

\* position of the first `}` at or after p, 0 when there is none
RECURSIVE FirstClose(_, _)
FirstClose(s, p) ==
    IF p > Len(s) THEN 0
    ELSE IF s[p] = Close THEN p ELSE FirstClose(s, p + 1)

\* time_regex \{time:([^}]+)\} tried at position i: the position of the
\* closing brace of the match, 0 when it does not match there
TimeMatchEnd(s, i) ==
    IF s[i] # OpenTime THEN 0
    ELSE LET j == FirstClose(s, i + 1) IN IF j > i + 1 THEN j ELSE 0

\* last position of the longest run of [\w\.] that starts at p (p - 1: none)
RECURSIVE RunEnd(_, _)
RunEnd(s, p) == IF p <= Len(s) /\ IdChar(s[p]) THEN RunEnd(s, p + 1) ELSE p - 1

\* sensor_regex \{sensor\.([\w\.]+)\} tried at position i
SensorMatchEnd(s, i) ==
    IF s[i] # OpenSensor THEN 0
    ELSE LET r == RunEnd(s, i + 1)
         IN IF r > i /\ r < Len(s) /\ s[r + 1] = Close THEN r + 1 ELSE 0

\* leftmost match at or after p, 0 when there is none
RECURSIVE FirstTimeMatch(_, _)
FirstTimeMatch(s, p) ==
    IF p > Len(s) THEN 0
    ELSE IF TimeMatchEnd(s, p) # 0 THEN p ELSE FirstTimeMatch(s, p + 1)

RECURSIVE FirstSensorMatch(_, _)
FirstSensorMatch(s, p) ==
    IF p > Len(s) THEN 0
    ELSE IF SensorMatchEnd(s, p) # 0 THEN p ELSE FirstSensorMatch(s, p + 1)

\* now.format(fmt).to_string(): a specifier becomes the digits of the
\* instant, every other character is copied
Format(fmt, now) == [i \in 1..Len(fmt) |-> IF fmt[i] = Hour THEN DigitOf[now] ELSE fmt[i]]

\* val.parse::<f64>().is_ok(): optional sign, then inf, or digits with at
\* most one point and at least one digit, optionally followed by an exponent
Unsigned(s) == IF s # <<>> /\ s[1] = "-" THEN Tail(s) ELSE s
DotCount(s) == Cardinality({i \in 1..Len(s) : s[i] = Dot})
IsMantissa(s) ==
    /\ \A i \in 1..Len(s) : s[i] \in Digits \cup {Dot}
    /\ DotCount(s) <= 1
    /\ \E i \in 1..Len(s) : s[i] \in Digits
IsExponent(s) ==
    /\ Unsigned(s) # <<>>
    /\ \A i \in 1..Len(Unsigned(s)) : Unsigned(s)[i] \in Digits
IsNumber(s) ==
    \/ IsMantissa(s)
    \/ \E p \in 1..Len(s) :
          /\ s[p] = "e"
          /\ IsMantissa(SubSeq(s, 1, p - 1))
          /\ IsExponent(SubSeq(s, p + 1, Len(s)))
ParsesF64(v) == Unsigned(v) = <<"inf">> \/ IsNumber(Unsigned(v))

\* faulty variant: every value is treated as a number
ApplySeparator_NoParse(val, sep) ==
    [i \in 1..Len(val) |-> IF val[i] = Dot THEN sep ELSE val[i]]

\* if val.parse::<f64>().is_ok() { val.replace('.', sep) } else { val }
ApplySeparator(val, sep) ==
    IF ParsesF64(val)
    THEN [i \in 1..Len(val) |-> IF val[i] = Dot THEN sep ELSE val[i]]
    ELSE val

\* faulty variant: a placeholder without a value is left in place
Lookup_KeepsPlaceholder(snap, id) ==
    IF id \in DOMAIN snap THEN snap[id] ELSE <<OpenSensor>> \o Tail(id) \o <<Close>>

\* sensor_values.get(&entity_id).cloned().unwrap_or_else(|| "?".to_string())
Lookup(snap, id) == IF id \in DOMAIN snap THEN snap[id] ELSE <<Missing>>

\* sensor_regex.replace_all: every match, left to right, is replaced by the
\* looked-up value; the text put in is not scanned again
RECURSIVE ReplaceSensors(_, _, _)
ReplaceSensors(m, snap, sep) ==
    LET s == Text(m)
        i == FirstSensorMatch(s, 1)
        j == SensorMatchEnd(s, i)
        id == <<SensorPrefix>> \o SubSeq(s, i + 1, j - 1)
    IN IF i = 0 THEN m
       ELSE SubSeq(m, 1, i - 1)
            \o Mark(ApplySeparator(Lookup(snap, id), sep), TRUE)
            \o ReplaceSensors(SubSeq(m, j + 1, Len(m)), snap, sep)

\* locale.to_lowercase()
UpperCase == <<"A", "B", "C", "D", "E", "F", "G", "H", "I", "J", "K", "L", "M",
               "N", "O", "P", "Q", "R", "S", "T", "U", "V", "W", "X", "Y", "Z">>
LowerCase == <<"a", "b", "c", "d", "e", "f", "g", "h", "i", "j", "k", "l", "m",
               "n", "o", "p", "q", "r", "s", "t", "u", "v", "w", "x", "y", "z">>
ToLower(ch) ==
    IF \E i \in 1..Len(UpperCase) : UpperCase[i] = ch
    THEN LowerCase[CHOOSE i \in 1..Len(UpperCase) : UpperCase[i] = ch]
    ELSE ch
ToLowercase(s) == [i \in 1..Len(s) |-> ToLower(s[i])]
StartsWith(s, p) == Len(s) >= Len(p) /\ SubSeq(s, 1, Len(p)) = p

CommaPrefixes ==
    {<<"s", "v">>, <<"n", "o">>, <<"n", "b">>, <<"n", "n">>, <<"d", "a">>, <<"f", "i">>,
     <<"i", "s">>, <<"d", "e">>, <<"n", "l">>, <<"p", "l">>, <<"c", "s">>, <<"s", "k">>,
     <<"h", "u">>, <<"r", "o">>, <<"b", "g">>, <<"h", "r">>, <<"s", "r">>, <<"s", "l">>,
     <<"b", "s">>, <<"m", "k">>, <<"f", "r">>, <<"e", "s">>, <<"p", "t">>, <<"i", "t">>,
     <<"e", "l">>, <<"t", "r">>, <<"r", "u">>, <<"u", "k">>, <<"b", "e">>, <<"k", "k">>,
     <<"i", "d">>, <<"v", "i">>, <<"a", "z">>, <<"s", "q">>, <<"h", "y">>, <<"k", "a">>}

GetDecimalSeparator(loc) ==
    IF \E p \in CommaPrefixes : StartsWith(ToLowercase(loc), p) THEN Comma ELSE Dot

\* LOCALE values: the default, the one of the tests, an upper-case tag
DefaultLocale == <<"e", "n", "_", "U", "S">>
Locales == {DefaultLocale, <<"s", "v", "_", "S", "E">>, <<"D", "E">>}
DefaultFontSize == 48
FontSizes == {DefaultFontSize, 64}

\* ImageGenerator::new(font_data, lines, font_size, locale, width, height);
\* locale is not a field of the struct, it is kept to state the properties
NewGenerator(fs, loc) ==
    [built |-> TRUE, font_size |-> fs,
     decimal_separator |-> GetDecimalSeparator(loc), locale |-> loc]
NoGen == [built |-> FALSE, font_size |-> 0, decimal_separator |-> Dot, locale |-> <<>>]

EmptySnap == [id \in {} |-> <<>>]

\* nothing configured to render, no resolve_line call in progress
RenderIdle ==
    /\ locale = DefaultLocale
    /\ fontSize = DefaultFontSize
    /\ lines = <<>>
    /\ required = <<>>
    /\ gen = NoGen
    /\ clock = 1
    /\ tpl = <<>>
    /\ rSnap = EmptySnap
    /\ rPc = "idle"
    /\ rNow = 0
    /\ rIn = <<>>
    /\ rAcc = <<>>
    /\ rUsed = <<>>

\* ------------------------------------------------------------- Init
\* what main() has built before it spawns the poller or serves: the empty
\* cache behind its lock, no consumer, no media
Fresh ==
    /\ cache = EmptyMap
    /\ writer = FALSE
    /\ readers = {}
    /\ pPc = "fetch" /\ pIdx = 1 /\ pVal = None
    /\ pCycle = <<>>
    /\ lastOk = EmptyMap
    /\ fetchFailed = {}
    /\ mjPc = [c \in MjIds |-> "idle"]
    /\ mjSnap = [c \in MjIds |-> EmptyMap]
    /\ mjAtLock = [c \in MjIds |-> NoSnapshot]
    /\ mjFrame = [c \in MjIds |-> 0]
    /\ mjStale = [c \in MjIds |-> {}]
    /\ genLog = [c \in MjIds |-> <<>>]
    /\ out = [c \in MjIds |-> <<>>]
    /\ closedBy = [c \in MjIds |-> "none"]
    /\ client = [k \in ClientIds |-> "idle"]
    /\ clientMedia = [k \in ClientIds |-> 0]
    /\ mediaCount = 0
    /\ mPc = [m \in MediaIds |-> "none"]
    /\ mSnap = [m \in MediaIds |-> EmptyMap]
    /\ mAtLock = [m \in MediaIds |-> NoSnapshot]
    /\ mStale = [m \in MediaIds |-> {}]
    /\ timestamp = [m \in MediaIds |-> 0]
    /\ pushed = [m \in MediaIds |-> <<>>]

\* the state once main() serves: renderer built, poller spawned, transport up
Init ==
    /\ mode \in Modes
    /\ fps \in FpsValues
    /\ watch = SensorsList
    /\ faults = {}
    /\ phase = "serving"
    /\ exitStatus = "none"
    /\ RenderIdle
    /\ Fresh

\* ------------------------------------------------------ polling task
\* the polling task exists from tokio::spawn until the process ends; it is
\* spawned only if !sensors_list.is_empty()
Running == phase \in {"spawned", "serving"} /\ watch # <<>>

\* faulty variant: the position in the list is taken for the id
EntityId_IsPosition == pIdx

\* for entity_id in &sensors_list: the entry the loop is at
EntityId == watch[pIdx]

\* fetch_sensor_state(entity_id).await returns Ok(val)
PollFetchOk(v) ==
    /\ Running
    /\ pPc = "fetch"
    /\ pPc' = "write" /\ pVal' = v /\ pIdx' = pIdx
    /\ pCycle' = Append(pCycle, EntityId)
    /\ lastOk' = [lastOk EXCEPT ![EntityId] = v]
    /\ fetchFailed' = fetchFailed \ {EntityId}
    /\ UNCHANGED <<cfgVars, bootVars, renderVars, cache, lockVars, mjVars, rtspVars>>

\* faulty variant: the Err arm drops the stale value of the sensor
PollFetchErr_ClearsKey ==
    /\ Running
    /\ pPc = "fetch"
    /\ PollAdvance
    /\ pCycle' = Append(pCycle, EntityId)
    /\ fetchFailed' = fetchFailed \cup {EntityId}
    /\ cache' = [cache EXCEPT ![EntityId] = None]
    /\ UNCHANGED <<cfgVars, bootVars, renderVars, lockVars, pVal, lastOk, mjVars, rtspVars>>

\* fetch_sensor_state(entity_id).await returns Err(e): eprintln, next entry
PollFetchErr ==
    /\ Running
    /\ pPc = "fetch"
    /\ PollAdvance
    /\ pCycle' = Append(pCycle, EntityId)
    /\ fetchFailed' = fetchFailed \cup {EntityId}
    /\ UNCHANGED <<cfgVars, bootVars, renderVars, cache, lockVars, pVal, lastOk, mjVars, rtspVars>>

\* sensor_values_clone.write() returns the guard
PollAcquireWrite ==
    /\ Running
    /\ pPc = "write"
    /\ CanWrite
    /\ writer' = TRUE
    /\ pPc' = "insert"
    /\ UNCHANGED <<cfgVars, bootVars, renderVars, cache, readers, pCycle, pIdx, pVal, lastOk, fetchFailed, mjVars, rtspVars>>

\* faulty variant: the map is replaced by one holding only the new entry
PollInsert_ReplacesMap ==
    /\ Running
    /\ pPc = "insert"
    /\ cache' = [EmptyMap EXCEPT ![EntityId] = pVal]
    /\ pPc' = "unlock"
    /\ UNCHANGED <<cfgVars, bootVars, renderVars, lockVars, pCycle, pIdx, pVal, lastOk, fetchFailed, mjVars, rtspVars>>

\* lock.insert(entity_id.clone(), val)
PollInsert ==
    /\ Running
    /\ pPc = "insert"
    /\ cache' = [cache EXCEPT ![EntityId] = pVal]
    /\ pPc' = "unlock"
    /\ UNCHANGED <<cfgVars, bootVars, renderVars, lockVars, pCycle, pIdx, pVal, lastOk, fetchFailed, mjVars, rtspVars>>

\* the guard drops at the end of the if-let block
PollReleaseWrite ==
    /\ Running
    /\ pPc = "unlock"
    /\ writer' = FALSE
    /\ pVal' = None
    /\ PollAdvance
    /\ UNCHANGED <<cfgVars, bootVars, renderVars, cache, readers, pCycle, lastOk, fetchFailed, mjVars, rtspVars>>

\* sleep(10s).await completes; the outer loop starts the list again
PollWake ==
    /\ Running
    /\ pPc = "sleep"
    /\ pPc' = "fetch" /\ pIdx' = 1
    /\ pCycle' = <<>>
    /\ UNCHANGED <<cfgVars, bootVars, renderVars, cache, lockVars, pVal, lastOk, fetchFailed, mjVars, rtspVars>>

Poller ==
    \/ \E v \in Values : PollFetchOk(v)
    \/ PollFetchErr
    \/ PollAcquireWrite
    \/ PollInsert
    \/ PollReleaseWrite
    \/ PollWake

\* ------------------------------------------------------- draw_frame
LineIds == 1..NumLines

\* for (i, line_template) in self.lines: resolve_line(line_template,
\* sensor_values): the map each line of the frame is resolved against
DrawFrame(snap) == [l \in LineIds |-> snap]

\* the lines of a drawn frame that were resolved against something else than
\* the cache as it was when this cycle's read guard was taken
StaleLines(drawn, atLock) == {l \in LineIds : drawn[l] # atLock}

\* ------------------------------------------------- MJPEG stream handler
JpegLens == {1, 2}   \* byte lengths the JPEG encoder can return

\* GET /stream: the handler returns the Response whose body is the stream
MjConnect(c) ==
    /\ phase = "serving"
    /\ mode = "mjpeg"
    /\ mjPc[c] = "idle"
    /\ mjPc' = [mjPc EXCEPT ![c] = "start"]
    /\ UNCHANGED <<cfgVars, bootVars, renderVars, cache, lockVars, pollVars, mjSnap, mjAtLock, mjFrame, mjStale,
                   genLog, out, closedBy, rtspVars>>

\* first poll of the stream: tokio::time::interval(from_millis(1000 / fps))
MjStart(c) ==
    /\ mjPc[c] = "start"
    /\ IF IntervalPanics(fps)
       THEN /\ mjPc' = [mjPc EXCEPT ![c] = "closed"]
            /\ closedBy' = [closedBy EXCEPT ![c] = "panic"]
       ELSE /\ mjPc' = [mjPc EXCEPT ![c] = "tick"]
            /\ closedBy' = closedBy
    /\ UNCHANGED <<cfgVars, bootVars, renderVars, cache, lockVars, pollVars, mjSnap, mjAtLock, mjFrame, mjStale,
                   genLog, out, rtspVars>>

\* interval.tick().await completes
MjTick(c) ==
    /\ mjPc[c] = "tick"
    /\ SumLen(genLog, MjIds) < MaxTicks
    /\ mjPc' = [mjPc EXCEPT ![c] = "lock"]
    /\ UNCHANGED <<cfgVars, bootVars, renderVars, cache, lockVars, pollVars, mjSnap, mjAtLock, mjFrame, mjStale,
                   genLog, out, closedBy, rtspVars>>

\* state.sensor_values.read().unwrap()
MjAcquireRead(c) ==
    /\ mjPc[c] = "lock"
    /\ CanRead
    /\ readers' = readers \cup {MjReader(c)}
    /\ mjAtLock' = [mjAtLock EXCEPT ![c] = cache]
    /\ mjSnap' = [mjSnap EXCEPT ![c] = Unvisited]
    /\ mjPc' = [mjPc EXCEPT ![c] = "clone"]
    /\ UNCHANGED <<cfgVars, bootVars, renderVars, cache, writer, pollVars, mjFrame, mjStale, genLog, out,
                   closedBy, rtspVars>>

\* lock.clone(): the map is copied one bucket at a time
MjCloneStep(c) ==
    /\ mjPc[c] = "clone"
    /\ \E k \in Sensors : mjSnap[c][k] = Pending
    /\ mjSnap' = [mjSnap EXCEPT ![c][NextBucket(mjSnap[c])] = cache[NextBucket(mjSnap[c])]]
    /\ UNCHANGED <<cfgVars, bootVars, renderVars, cache, lockVars, pollVars, mjPc, mjAtLock, mjFrame, mjStale,
                   genLog, out, closedBy, rtspVars>>

\* faulty variant: the read guard is kept while the frame is generated
MjReleaseRead_KeepsGuard(c) ==
    /\ mjPc[c] = "clone"
    /\ \A k \in Sensors : mjSnap[c][k] # Pending
    /\ mjPc' = [mjPc EXCEPT ![c] = "gen"]
    /\ UNCHANGED <<cfgVars, bootVars, renderVars, cache, lockVars, pollVars, mjSnap, mjAtLock, mjFrame, mjStale,
                   genLog, out, closedBy, rtspVars>>

\* end of the block: the read guard drops, val_map holds the copy
MjReleaseRead(c) ==
    /\ mjPc[c] = "clone"
    /\ \A k \in Sensors : mjSnap[c][k] # Pending
    /\ readers' = readers \ {MjReader(c)}
    /\ mjPc' = [mjPc EXCEPT ![c] = "gen"]
    /\ UNCHANGED <<cfgVars, bootVars, renderVars, cache, writer, pollVars, mjSnap, mjAtLock, mjFrame, mjStale,
                   genLog, out, closedBy, rtspVars>>

\* generate_frame(&val_map) returns Ok(jpeg_bytes) with n bytes
MjGenerateOk(c, n) ==
    /\ mjPc[c] = "gen"
    /\ mjFrame' = [mjFrame EXCEPT ![c] = n]
    /\ mjStale' = [mjStale EXCEPT ![c] = StaleLines(DrawFrame(mjSnap[c]), mjAtLock[c])]
    /\ genLog' = [genLog EXCEPT ![c] = Append(@, "ok")]
    /\ mjPc' = [mjPc EXCEPT ![c] = "yield_header"]
    /\ mjSnap' = [mjSnap EXCEPT ![c] = EmptyMap]
    /\ mjAtLock' = [mjAtLock EXCEPT ![c] = NoSnapshot]
    /\ UNCHANGED <<cfgVars, bootVars, renderVars, cache, lockVars, pollVars, out, closedBy, rtspVars>>

\* faulty variant: a generation error ends the stream
MjGenerateErr_EndsStream(c) ==
    /\ mjPc[c] = "gen"
    /\ genLog' = [genLog EXCEPT ![c] = Append(@, "err")]
    /\ mjPc' = [mjPc EXCEPT ![c] = "closed"]
    /\ mjSnap' = [mjSnap EXCEPT ![c] = EmptyMap]
    /\ mjAtLock' = [mjAtLock EXCEPT ![c] = NoSnapshot]
    /\ UNCHANGED <<cfgVars, bootVars, renderVars, cache, lockVars, pollVars, mjFrame,
                   mjStale, out, closedBy, rtspVars>>

\* generate_frame(&val_map) returns Err(e): eprintln, back to the tick
MjGenerateErr(c) ==
    /\ mjPc[c] = "gen"
    /\ genLog' = [genLog EXCEPT ![c] = Append(@, "err")]
    /\ mjPc' = [mjPc EXCEPT ![c] = "tick"]
    /\ mjSnap' = [mjSnap EXCEPT ![c] = EmptyMap]
    /\ mjAtLock' = [mjAtLock EXCEPT ![c] = NoSnapshot]
    /\ UNCHANGED <<cfgVars, bootVars, renderVars, cache, lockVars, pollVars, mjFrame,
                   mjStale, out, closedBy, rtspVars>>

\* faulty variant: Content-Length also counts the trailing delimiter
MjYieldHeader_CountsDelimiter(c) ==
    /\ mjPc[c] = "yield_header"
    /\ out' = [out EXCEPT ![c] =
                  Append(@, [kind |-> "header", len |-> mjFrame[c] + DelimLen])]
    /\ mjPc' = [mjPc EXCEPT ![c] = "yield_image"]
    /\ UNCHANGED <<cfgVars, bootVars, renderVars, cache, lockVars, pollVars, mjSnap, mjAtLock, mjFrame,
                   mjStale, genLog, closedBy, rtspVars>>

\* yield Ok(Bytes::from(frame_header)), Content-Length: jpeg_bytes.len()
MjYieldHeader(c) ==
    /\ mjPc[c] = "yield_header"
    /\ out' = [out EXCEPT ![c] = Append(@, [kind |-> "header", len |-> mjFrame[c]])]
    /\ mjPc' = [mjPc EXCEPT ![c] = "yield_image"]
    /\ UNCHANGED <<cfgVars, bootVars, renderVars, cache, lockVars, pollVars, mjSnap, mjAtLock, mjFrame,
                   mjStale, genLog, closedBy, rtspVars>>

\* yield Ok(Bytes::from(jpeg_bytes))
MjYieldImage(c) ==
    /\ mjPc[c] = "yield_image"
    /\ out' = [out EXCEPT ![c] = Append(@, [kind |-> "image", len |-> mjFrame[c]])]
    /\ mjPc' = [mjPc EXCEPT ![c] = "yield_delim"]
    /\ UNCHANGED <<cfgVars, bootVars, renderVars, cache, lockVars, pollVars, mjSnap, mjAtLock, mjFrame, mjStale,
                   genLog, closedBy, rtspVars>>

\* yield Ok(Bytes::from("\r\n")); the loop returns to interval.tick()
MjYieldDelim(c) ==
    /\ mjPc[c] = "yield_delim"
    /\ out' = [out EXCEPT ![c] = Append(@, [kind |-> "delim", len |-> DelimLen])]
    /\ mjPc' = [mjPc EXCEPT ![c] = "tick"]
    /\ mjFrame' = [mjFrame EXCEPT ![c] = 0]
    /\ UNCHANGED <<cfgVars, bootVars, renderVars, cache, lockVars, pollVars, mjSnap, mjAtLock,
                   mjStale, genLog, closedBy, rtspVars>>

\* the consumer goes away: the body stream is dropped.  A stream is dropped
\* only while suspended: before its first poll, at interval.tick().await, or
\* at a yield whose chunk has been handed over.
MjSuspended(c) == mjPc[c] \in {"start", "tick", "yield_image", "yield_delim"}

MjDisconnect(c) ==
    /\ MjSuspended(c)
    /\ mjPc' = [mjPc EXCEPT ![c] = "closed"]
    /\ closedBy' = [closedBy EXCEPT ![c] = "consumer"]
    /\ mjFrame' = [mjFrame EXCEPT ![c] = 0]
    /\ UNCHANGED <<cfgVars, bootVars, renderVars, cache, lockVars, pollVars, mjSnap, mjAtLock,
                   mjStale, genLog, out, rtspVars>>

Mjpeg ==
    \E c \in MjIds :
        \/ MjConnect(c)
        \/ MjStart(c)
        \/ MjTick(c)
        \/ MjAcquireRead(c)
        \/ MjCloneStep(c)
        \/ MjReleaseRead(c)
        \/ \E n \in JpegLens : MjGenerateOk(c, n)
        \/ MjGenerateErr(c)
        \/ MjYieldHeader(c)
        \/ MjYieldImage(c)
        \/ MjYieldDelim(c)
        \/ MjDisconnect(c)

\* ------------------------------------------------- RTSP media factory
PushResults == {"ok", "err"}   \* appsrc.push_buffer: Ok(FlowSuccess) or Err(FlowError)

\* the media a new client is served from: with a shared factory the media
\* that is already live, otherwise a media constructed for this client
LiveMedia == {m \in MediaIds : Alive(m)}

\* a client connects to /stream.  A new media runs the media-configure
\* closure: timestamp = 0 and a fresh need_data callback.
RtspConnect(k) ==
    /\ phase = "serving"
    /\ mode = "rtsp"
    /\ "launch" \notin faults
    /\ client[k] = "idle"
    /\ client' = [client EXCEPT ![k] = "connected"]
    /\ IF Shared /\ LiveMedia # {}
       THEN /\ \E m \in LiveMedia : clientMedia' = [clientMedia EXCEPT ![k] = m]
            /\ UNCHANGED <<mediaCount, mPc, timestamp>>
       ELSE /\ mediaCount' = mediaCount + 1
            /\ clientMedia' = [clientMedia EXCEPT ![k] = mediaCount + 1]
            /\ mPc' = [mPc EXCEPT ![mediaCount + 1] = "wait"]
            /\ timestamp' = [timestamp EXCEPT ![mediaCount + 1] = 0]
    /\ UNCHANGED <<cfgVars, bootVars, renderVars, cache, lockVars, pollVars, mjVars, mSnap, mAtLock, mStale, pushed>>

\* the client goes away
RtspDisconnect(k) ==
    /\ client[k] = "connected"
    /\ client' = [client EXCEPT ![k] = "gone"]
    /\ UNCHANGED <<cfgVars, bootVars, renderVars, cache, lockVars, pollVars, mjVars, clientMedia,
                   mediaCount, mPc, mSnap, mAtLock, mStale, timestamp, pushed>>

\* a media without clients is torn down between two callbacks
MediaTeardown(m) ==
    /\ mPc[m] = "wait"
    /\ Connected(m) = {}
    /\ mPc' = [mPc EXCEPT ![m] = "dead"]
    /\ UNCHANGED <<cfgVars, bootVars, renderVars, cache, lockVars, pollVars, mjVars, client, clientMedia,
                   mediaCount, mSnap, mAtLock, mStale, timestamp, pushed>>

\* the pipeline invokes need_data
NeedData(m) ==
    /\ mPc[m] = "wait"
    /\ SumLen(pushed, MediaIds) < MaxCalls
    /\ mPc' = [mPc EXCEPT ![m] = "lock"]
    /\ UNCHANGED <<cfgVars, bootVars, renderVars, cache, lockVars, pollVars, mjVars, client, clientMedia,
                   mediaCount, mSnap, mAtLock, mStale, timestamp, pushed>>

\* state_clone.sensor_values.read().unwrap()
MediaAcquireRead(m) ==
    /\ mPc[m] = "lock"
    /\ CanRead
    /\ readers' = readers \cup {MediaReader(m)}
    /\ mAtLock' = [mAtLock EXCEPT ![m] = cache]
    /\ mSnap' = [mSnap EXCEPT ![m] = Unvisited]
    /\ mPc' = [mPc EXCEPT ![m] = "clone"]
    /\ UNCHANGED <<cfgVars, bootVars, renderVars, cache, writer, pollVars, mjVars, client, clientMedia,
                   mediaCount, mStale, timestamp, pushed>>

\* lock.clone()
MediaCloneStep(m) ==
    /\ mPc[m] = "clone"
    /\ \E k \in Sensors : mSnap[m][k] = Pending
    /\ mSnap' = [mSnap EXCEPT ![m][NextBucket(mSnap[m])] = cache[NextBucket(mSnap[m])]]
    /\ UNCHANGED <<cfgVars, bootVars, renderVars, cache, lockVars, pollVars, mjVars, client, clientMedia,
                   mediaCount, mPc, mAtLock, mStale, timestamp, pushed>>

\* end of the block: the read guard drops
MediaReleaseRead(m) ==
    /\ mPc[m] = "clone"
    /\ \A k \in Sensors : mSnap[m][k] # Pending
    /\ readers' = readers \ {MediaReader(m)}
    /\ mPc' = [mPc EXCEPT ![m] = "render"]
    /\ UNCHANGED <<cfgVars, bootVars, renderVars, cache, writer, pollVars, mjVars, client, clientMedia,
                   mediaCount, mSnap, mAtLock, mStale, timestamp, pushed>>

\* generate_raw_frame(&val_map): the buffer is drawn from the copy
MediaRender(m) ==
    /\ mPc[m] = "render"
    /\ mStale' = [mStale EXCEPT ![m] = StaleLines(DrawFrame(mSnap[m]), mAtLock[m])]
    /\ mPc' = [mPc EXCEPT ![m] = "push"]
    /\ UNCHANGED <<cfgVars, bootVars, renderVars, cache, lockVars, pollVars, mjVars, client,
                   clientMedia, mediaCount, mSnap, mAtLock, timestamp, pushed>>

\* faulty variant: the counter advances only when the push succeeded
MediaPush_AdvanceOnSuccessOnly(m, res) ==
    /\ mPc[m] = "push"
    /\ pushed' = [pushed EXCEPT ![m] =
                     Append(@, [pts |-> timestamp[m], duration |-> FrameDuration(fps),
                                res |-> res])]
    /\ timestamp' = [timestamp EXCEPT ![m] =
                        IF res = "ok" THEN @ + FrameDuration(fps) ELSE @]
    /\ mPc' = [mPc EXCEPT ![m] = "wait"]
    /\ mSnap' = [mSnap EXCEPT ![m] = EmptyMap]
    /\ mAtLock' = [mAtLock EXCEPT ![m] = NoSnapshot]
    /\ UNCHANGED <<cfgVars, bootVars, renderVars, cache, lockVars, pollVars, mjVars, client, clientMedia,
                   mediaCount, mStale>>

\* set_pts(timestamp), set_duration(frame_duration),
\* let _ = push_buffer(buffer), timestamp += frame_duration
MediaPush(m, res) ==
    /\ mPc[m] = "push"
    /\ pushed' = [pushed EXCEPT ![m] =
                     Append(@, [pts |-> timestamp[m], duration |-> FrameDuration(fps),
                                res |-> res])]
    /\ timestamp' = [timestamp EXCEPT ![m] = @ + FrameDuration(fps)]
    /\ mPc' = [mPc EXCEPT ![m] = "wait"]
    /\ mSnap' = [mSnap EXCEPT ![m] = EmptyMap]
    /\ mAtLock' = [mAtLock EXCEPT ![m] = NoSnapshot]
    /\ UNCHANGED <<cfgVars, bootVars, renderVars, cache, lockVars, pollVars, mjVars, client, clientMedia,
                   mediaCount, mStale>>

Rtsp ==
    \/ \E k \in ClientIds : RtspConnect(k) \/ RtspDisconnect(k)
    \/ \E m \in MediaIds :
          \/ MediaTeardown(m)
          \/ NeedData(m)
          \/ MediaAcquireRead(m)
          \/ MediaCloneStep(m)
          \/ MediaReleaseRead(m)
          \/ MediaRender(m)
          \/ \E res \in PushResults : MediaPush(m, res)

Next == Poller \/ Mjpeg \/ Rtsp

Spec == Init /\ [][Next]_vars

\* the process serves one transport, chosen by STREAM_FORMAT at startup
InitMjpeg == Init /\ mode = "mjpeg"
InitRtsp == Init /\ mode = "rtsp"
NextMjpeg == Poller \/ Mjpeg
NextRtsp == Poller \/ Rtsp
SpecMjpeg == InitMjpeg /\ [][NextMjpeg]_vars
SpecRtsp == InitRtsp /\ [][NextRtsp]_vars

\* the lines decide which sensors are watched: get_required_sensors() returns
\* any ascending, duplicate-free list of ids, the empty one included
WatchLists ==
    {w \in UNION {[1..n -> Sensors] : n \in 0..NumSensors} :
        \A i \in 1..(Len(w) - 1) : w[i] < w[i + 1]}

InitWatch ==
    /\ mode \in Modes
    /\ fps = DefaultFps
    /\ watch \in WatchLists
    /\ faults = {}
    /\ phase = "serving"
    /\ exitStatus = "none"
    /\ RenderIdle
    /\ Fresh

SpecWatch == InitWatch /\ [][Next]_vars

\* ------------------------------------------- MJPEG loop, followed forever
\* The stream's loop has no exit and no bound on its ticks.  These are the
\* steps of mjpeg_stream that record what was produced, taken without the
\* records (genLog, out), so that the loop can be followed for ever; val_map
\* lives until the end of the iteration it was copied in.

\* interval.tick().await completes
MjTickLive(c) ==
    /\ mjPc[c] = "tick"
    /\ mjPc' = [mjPc EXCEPT ![c] = "lock"]
    /\ UNCHANGED <<cfgVars, bootVars, renderVars, cache, lockVars, pollVars, mjSnap, mjAtLock, mjFrame,
                   mjStale, genLog, out, closedBy, rtspVars>>

\* generate_frame(&val_map) returns Ok(jpeg_bytes) with n bytes
MjGenerateOkLive(c, n) ==
    /\ mjPc[c] = "gen"
    /\ mjFrame' = [mjFrame EXCEPT ![c] = n]
    /\ mjStale' = [mjStale EXCEPT ![c] = StaleLines(DrawFrame(mjSnap[c]), mjAtLock[c])]
    /\ mjPc' = [mjPc EXCEPT ![c] = "yield_header"]
    /\ mjAtLock' = [mjAtLock EXCEPT ![c] = NoSnapshot]
    /\ UNCHANGED <<cfgVars, bootVars, renderVars, cache, lockVars, pollVars, mjSnap, genLog, out,
                   closedBy, rtspVars>>

\* generate_frame(&val_map) returns Err(e): eprintln, back to the tick
MjGenerateErrLive(c) ==
    /\ mjPc[c] = "gen"
    /\ mjPc' = [mjPc EXCEPT ![c] = "tick"]
    /\ mjSnap' = [mjSnap EXCEPT ![c] = EmptyMap]
    /\ mjAtLock' = [mjAtLock EXCEPT ![c] = NoSnapshot]
    /\ UNCHANGED <<cfgVars, bootVars, renderVars, cache, lockVars, pollVars, mjFrame,
                   mjStale, genLog, out, closedBy, rtspVars>>

\* yield Ok(Bytes::from(frame_header))
MjYieldHeaderLive(c) ==
    /\ mjPc[c] = "yield_header"
    /\ mjPc' = [mjPc EXCEPT ![c] = "yield_image"]
    /\ UNCHANGED <<cfgVars, bootVars, renderVars, cache, lockVars, pollVars, mjSnap, mjAtLock, mjFrame,
                   mjStale, genLog, out, closedBy, rtspVars>>

\* yield Ok(Bytes::from(jpeg_bytes))
MjYieldImageLive(c) ==
    /\ mjPc[c] = "yield_image"
    /\ mjPc' = [mjPc EXCEPT ![c] = "yield_delim"]
    /\ UNCHANGED <<cfgVars, bootVars, renderVars, cache, lockVars, pollVars, mjSnap, mjAtLock, mjFrame,
                   mjStale, genLog, out, closedBy, rtspVars>>

\* yield Ok(Bytes::from("\r\n")); the iteration ends, val_map is dropped
MjYieldDelimLive(c) ==
    /\ mjPc[c] = "yield_delim"
    /\ mjPc' = [mjPc EXCEPT ![c] = "tick"]
    /\ mjFrame' = [mjFrame EXCEPT ![c] = 0]
    /\ mjSnap' = [mjSnap EXCEPT ![c] = EmptyMap]
    /\ UNCHANGED <<cfgVars, bootVars, renderVars, cache, lockVars, pollVars, mjAtLock,
                   mjStale, genLog, out, closedBy, rtspVars>>

MjpegLive ==
    \E c \in MjIds :
        \/ MjConnect(c)
        \/ MjStart(c)
        \/ MjTickLive(c)
        \/ MjAcquireRead(c)
        \/ MjCloneStep(c)
        \/ MjReleaseRead(c)
        \/ \E n \in JpegLens : MjGenerateOkLive(c, n)
        \/ MjGenerateErrLive(c)
        \/ MjYieldHeaderLive(c)
        \/ MjYieldImageLive(c)
        \/ MjYieldDelimLive(c)
        \/ MjDisconnect(c)

\* one sensor is watched, whichever
InitLive ==
    /\ mode = "mjpeg"
    /\ fps \in FpsValues
    /\ watch \in {w \in WatchLists : Len(w) = 1}
    /\ faults = {}
    /\ phase = "serving"
    /\ exitStatus = "none"
    /\ RenderIdle
    /\ Fresh

NextLive == Poller \/ MjpegLive

\* fair scheduling.  The polling task is always scheduled again: an upstream
\* call returns (with either result), the sleep ends, and write() is granted
\* if the lock is free again and again.  A stream that is polled makes its
\* next step: the timer fires, read() is granted if no writer holds the lock
\* again and again, the frame is generated (with either result) and a chunk
\* yielded is taken by the connection.  Nothing makes a client connect, stay,
\* a fetch succeed or a generation succeed.
PollerFair ==
    /\ WF_vars((\E v \in Values : PollFetchOk(v)) \/ PollFetchErr)
    /\ SF_vars(PollAcquireWrite)
    /\ WF_vars(PollInsert)
    /\ WF_vars(PollReleaseWrite)
    /\ WF_vars(PollWake)

StreamFair(c) ==
    /\ WF_vars(MjStart(c))
    /\ WF_vars(MjTickLive(c))
    /\ SF_vars(MjAcquireRead(c))
    /\ WF_vars(MjCloneStep(c))
    /\ WF_vars(MjReleaseRead(c))
    /\ WF_vars((\E n \in JpegLens : MjGenerateOkLive(c, n)) \/ MjGenerateErrLive(c))
    /\ WF_vars(MjYieldHeaderLive(c))
    /\ WF_vars(MjYieldImageLive(c))
    /\ WF_vars(MjYieldDelimLive(c))

SpecLive ==
    /\ InitLive /\ [][NextLive]_vars
    /\ PollerFair
    /\ \A c \in MjIds : StreamFair(c)

\* ---------------------------------------------------------- startup
\* what can fail while main() starts the chosen transport: Font::try_from_bytes
\* ("font"), TcpListener::bind ("bind"), a step of run_rtsp_server that
\* returns Err, gst::init, mount_points or attach ("rtsp"), and the
\* construction of the pipeline from the launch description ("launch")
FaultsOf(md) == IF md = "mjpeg" THEN {"font", "bind"} ELSE {"font", "rtsp", "launch"}

\* the process starts: configuration read, nothing built yet
InitBoot ==
    /\ mode \in Modes
    /\ fps \in FpsValues
    /\ watch = SensorsList
    /\ faults \in SUBSET FaultsOf(mode)
    /\ phase = "boot"
    /\ exitStatus = "none"
    /\ RenderIdle
    /\ Fresh

\* ImageGenerator::new(..)? returns Ok; the polling task is spawned
BootRendererOk ==
    /\ phase = "boot"
    /\ "font" \notin faults
    /\ phase' = "spawned"
    /\ UNCHANGED <<cfgVars, renderVars, faults, exitStatus, cache, lockVars, pollVars, mjVars, rtspVars>>

\* ImageGenerator::new(..)? returns Err: main returns the error
BootRendererErr ==
    /\ phase = "boot"
    /\ "font" \in faults
    /\ phase' = "exited"
    /\ exitStatus' = "failure"
    /\ UNCHANGED <<cfgVars, renderVars, faults, cache, lockVars, pollVars, mjVars, rtspVars>>

\* TcpListener::bind(addr).await? succeeds, axum::serve runs
StartMjpeg ==
    /\ phase = "spawned"
    /\ mode = "mjpeg"
    /\ "bind" \notin faults
    /\ phase' = "serving"
    /\ UNCHANGED <<cfgVars, renderVars, faults, exitStatus, cache, lockVars, pollVars, mjVars, rtspVars>>

\* TcpListener::bind(addr).await? fails: main returns the error
StartMjpegErr ==
    /\ phase = "spawned"
    /\ mode = "mjpeg"
    /\ "bind" \in faults
    /\ phase' = "exited"
    /\ exitStatus' = "failure"
    /\ UNCHANGED <<cfgVars, renderVars, faults, cache, lockVars, pollVars, mjVars, rtspVars>>

\* run_rtsp_server reaches main_loop.run(): set_launch only stores the
\* launch description, the pipeline is built when a client asks for a media
StartRtsp ==
    /\ phase = "spawned"
    /\ mode = "rtsp"
    /\ "rtsp" \notin faults
    /\ phase' = "serving"
    /\ UNCHANGED <<cfgVars, renderVars, faults, exitStatus, cache, lockVars, pollVars, mjVars, rtspVars>>

\* run_rtsp_server returns Err: the closure prints it and returns (), the
\* join handle yields Ok(()), main returns Ok(())
StartRtspErr ==
    /\ phase = "spawned"
    /\ mode = "rtsp"
    /\ "rtsp" \in faults
    /\ phase' = "exited"
    /\ exitStatus' = "success"
    /\ UNCHANGED <<cfgVars, renderVars, faults, cache, lockVars, pollVars, mjVars, rtspVars>>

\* a client asks for /stream and the pipeline cannot be built from the
\* launch description: no media, media-configure does not run
RtspConnectRefused(k) ==
    /\ phase = "serving"
    /\ mode = "rtsp"
    /\ "launch" \in faults
    /\ client[k] = "idle"
    /\ client' = [client EXCEPT ![k] = "refused"]
    /\ UNCHANGED <<cfgVars, bootVars, renderVars, cache, lockVars, pollVars, mjVars, clientMedia,
                   mediaCount, mPc, mSnap, mAtLock, mStale, timestamp, pushed>>

Boot ==
    \/ BootRendererOk
    \/ BootRendererErr
    \/ StartMjpeg
    \/ StartMjpegErr
    \/ StartRtsp
    \/ StartRtspErr
    \/ \E k \in ClientIds : RtspConnectRefused(k)

\* the process from its start
NextBoot == Boot \/ Next
SpecBoot == InitBoot /\ [][NextBoot]_vars

\* ---------------------------------------------------------- Config
MaxLines == 2        \* configured lines
MaxLineLen == 3      \* tokens of a configured line

LineTokens == {OpenSensor, Close, "a", "b"}
LineLists == SeqsUpTo(SeqsUpTo(LineTokens, MaxLineLen), MaxLines)

\* the fallback lines: date, time, {sensor.sensor.<id>}
DefaultLines ==
    <<<<OpenTime, Hour, Close>>, <<OpenTime, Hour, Close>>,
      <<OpenSensor, SensorPrefix, "a", Close>>>>

\* String's Ord compares bytes: '.' < digits < letters
ByteOrder == <<Dot, "1", "2", "3", "4", "a", "b", "e", "inf", SensorPrefix>>
Rank(t) == CHOOSE i \in 1..Len(ByteOrder) : ByteOrder[i] = t
RECURSIVE LexLess(_, _)
LexLess(x, y) ==
    IF x = <<>> THEN y # <<>>
    ELSE IF y = <<>> THEN FALSE
    ELSE IF Head(x) = Head(y) THEN LexLess(Tail(x), Tail(y))
    ELSE Rank(Head(x)) < Rank(Head(y))

\* re.captures_iter(line): group 1 of every match, left to right
RECURSIVE Captures(_)
Captures(line) ==
    LET i == FirstSensorMatch(line, 1)
        j == SensorMatchEnd(line, i)
    IN IF i = 0 THEN <<>>
       ELSE <<SubSeq(line, i + 1, j - 1)>> \o Captures(SubSeq(line, j + 1, Len(line)))

\* for line in &self.lines { for cap in .. }: the captures of all lines
AllCaptures(ls) == Flatten([n \in 1..Len(ls) |-> Captures(ls[n])])

\* result.sort()
RECURSIVE SortAscending(_)
SortAscending(S) ==
    IF S = {} THEN <<>>
    ELSE LET least == CHOOSE x \in S : \A y \in S \ {x} : LexLess(x, y)
         IN <<least>> \o SortAscending(S \ {least})

\* faulty variant: the ids are returned as found, neither deduplicated nor
\* sorted
GetRequiredSensors_AsFound(ls) ==
    [n \in 1..Len(AllCaptures(ls)) |-> <<SensorPrefix>> \o AllCaptures(ls)[n]]

\* get_required_sensors: HashSet of format!("sensor.{}", capture), sorted
GetRequiredSensors(ls) ==
    SortAscending({<<SensorPrefix>> \o AllCaptures(ls)[n] : n \in 1..Len(AllCaptures(ls))})

\* Config::from_env has returned: any lines with the default locale and font
\* size, or the fallback lines with any locale and font size
InitConfig ==
    /\ mode = "mjpeg"
    /\ fps = 5
    /\ watch = SensorsList
    /\ faults = {}
    /\ phase = "config"
    /\ exitStatus = "none"
    /\ Fresh
    /\ \/ lines \in LineLists /\ locale = DefaultLocale /\ fontSize = DefaultFontSize
       \/ lines = DefaultLines /\ locale \in Locales /\ fontSize \in FontSizes
    /\ required = <<>>
    /\ gen = NoGen
    /\ clock = 1
    /\ tpl = <<>>
    /\ rSnap = EmptySnap
    /\ rPc = "idle"
    /\ rNow = 0
    /\ rIn = <<>>
    /\ rAcc = <<>>
    /\ rUsed = <<>>

\* let sensors_to_watch = config.get_required_sensors();
ReadRequiredSensors ==
    /\ phase = "config"
    /\ required' = GetRequiredSensors(lines)
    /\ phase' = "boot"
    /\ UNCHANGED <<cfgVars, faults, exitStatus, locale, fontSize, lines, gen, clock,
                   resolveVars, cache, lockVars, pollVars, mjVars, rtspVars>>

\* ImageGenerator::new(font_data, config.lines.clone(), config.video_width,
\* config.video_height)?: the call names neither config.font_size nor
\* config.locale, the two parameters of new() that set font_size and
\* decimal_separator, so whatever they receive is not taken from the Config
MainBuildsRenderer ==
    /\ phase = "boot"
    /\ gen' \in {NewGenerator(fs, l) : fs \in FontSizes, l \in Locales}
    /\ phase' = "spawned"
    /\ UNCHANGED <<cfgVars, faults, exitStatus, confVars, clock, resolveVars, cache,
                   lockVars, pollVars, mjVars, rtspVars>>

NextConfig == ReadRequiredSensors \/ MainBuildsRenderer
SpecConfig == InitConfig /\ [][NextConfig]_vars

\* ---------------------------------------------------- resolve_line
MaxTplLen == 5       \* tokens of a template of arbitrary shape
MaxPieces == 3       \* placeholders and literals of a well-formed template
MaxValLen == 4       \* tokens of a sensor value
MaxClock == 2        \* instants the clock goes through

TplTokens == {OpenSensor, OpenTime, Close, Hour, "a"}
ValTokens == {"1", Dot, "-", "e", "a", "inf"}

\* well-formed templates: whole placeholders and literal text, in any order
Pieces == {<<OpenTime, Hour, Close>>, <<OpenSensor, "a", Close>>, <<"a">>}
WellFormed == {Flatten(ps) : ps \in SeqsUpTo(Pieces, MaxPieces)}
Templates == SeqsUpTo(TplTokens, MaxTplLen) \cup WellFormed
SensorA == <<SensorPrefix, "a">>                 \* the entity id sensor.a
OnlySensorA == <<OpenSensor, "a", Close>>        \* the template {sensor.a}
Holding(v) == [id \in {SensorA} |-> v]           \* a snapshot with sensor.a = v

\* the inputs of resolve_line: every template with sensor.a absent, textual
\* or numeric, and the template {sensor.a} with sensor.a absent or any value
\* up to MaxValLen
ResolveInputs ==
    {<<t, s>> : t \in Templates,
                s \in {EmptySnap, Holding(<<"a">>), Holding(<<"1", Dot, "2">>)}}
    \cup {<<OnlySensorA, s>> :
             s \in {EmptySnap} \cup {Holding(v) : v \in SeqsUpTo(ValTokens, MaxValLen)}}

\* a generator built as the unit tests build it, about to resolve a line
InitRender ==
    /\ mode = "mjpeg"
    /\ fps = 5
    /\ watch = SensorsList
    /\ faults = {}
    /\ phase = "serving"
    /\ exitStatus = "none"
    /\ Fresh
    /\ locale = DefaultLocale
    /\ fontSize = DefaultFontSize
    /\ lines = <<>>
    /\ required = <<>>
    /\ gen \in {NewGenerator(DefaultFontSize, l) : l \in Locales}
    /\ clock = 1
    /\ \E inp \in ResolveInputs : tpl = inp[1] /\ rSnap = inp[2]
    /\ rPc = "idle"
    /\ rNow = 0
    /\ rIn = <<>>
    /\ rAcc = <<>>
    /\ rUsed = <<>>

\* let mut result = template.to_string(); let now = Local::now();
ResolveStart ==
    /\ rPc = "idle"
    /\ rNow' = clock
    /\ rIn' = Mark(tpl, FALSE)
    /\ rAcc' = <<>>
    /\ rUsed' = <<>>
    /\ rPc' = "time"
    /\ UNCHANGED <<cfgVars, bootVars, confVars, gen, clock, tpl, rSnap, cache,
                   lockVars, pollVars, mjVars, rtspVars>>

\* faulty variant: the closure asks the clock again
TimeReplace_ReadsClock ==
    /\ rPc = "time"
    /\ FirstTimeMatch(Text(rIn), 1) # 0
    /\ LET s == Text(rIn)
           i == FirstTimeMatch(s, 1)
           j == TimeMatchEnd(s, i)
       IN /\ rAcc' = rAcc \o SubSeq(rIn, 1, i - 1)
                          \o Mark(Format(SubSeq(s, i + 1, j - 1), clock), TRUE)
          /\ rIn' = SubSeq(rIn, j + 1, Len(rIn))
    /\ rUsed' = Append(rUsed, clock)
    /\ UNCHANGED <<cfgVars, bootVars, confVars, gen, clock, tpl, rSnap, rPc, rNow,
                   cache, lockVars, pollVars, mjVars, rtspVars>>

\* time_regex.replace_all, one match: the closure formats now with the
\* captured format
TimeReplace ==
    /\ rPc = "time"
    /\ FirstTimeMatch(Text(rIn), 1) # 0
    /\ LET s == Text(rIn)
           i == FirstTimeMatch(s, 1)
           j == TimeMatchEnd(s, i)
       IN /\ rAcc' = rAcc \o SubSeq(rIn, 1, i - 1)
                          \o Mark(Format(SubSeq(s, i + 1, j - 1), rNow), TRUE)
          /\ rIn' = SubSeq(rIn, j + 1, Len(rIn))
    /\ rUsed' = Append(rUsed, rNow)
    /\ UNCHANGED <<cfgVars, bootVars, confVars, gen, clock, tpl, rSnap, rPc, rNow,
                   cache, lockVars, pollVars, mjVars, rtspVars>>

\* time_regex.replace_all, no further match: the rest is copied
TimeDone ==
    /\ rPc = "time"
    /\ FirstTimeMatch(Text(rIn), 1) = 0
    /\ rAcc' = rAcc \o rIn
    /\ rIn' = <<>>
    /\ rPc' = "sensor"
    /\ UNCHANGED <<cfgVars, bootVars, confVars, gen, clock, tpl, rSnap, rNow, rUsed,
                   cache, lockVars, pollVars, mjVars, rtspVars>>

\* sensor_regex.replace_all over the result of the time pass; the result is
\* returned
SensorPass ==
    /\ rPc = "sensor"
    /\ rAcc' = ReplaceSensors(rAcc, rSnap, gen.decimal_separator)
    /\ rPc' = "done"
    /\ UNCHANGED <<cfgVars, bootVars, confVars, gen, clock, tpl, rSnap, rNow, rIn,
                   rUsed, cache, lockVars, pollVars, mjVars, rtspVars>>

\* time passes
ClockTick ==
    /\ clock < MaxClock
    /\ clock' = clock + 1
    /\ UNCHANGED <<cfgVars, bootVars, confVars, gen, resolveVars, cache, lockVars,
                   pollVars, mjVars, rtspVars>>

NextRender ==
    \/ ResolveStart
    \/ TimeReplace
    \/ TimeDone
    \/ SensorPass
    \/ ClockTick

SpecRender == InitRender /\ [][NextRender]_vars

\* a well-formed line resolved while the polling task runs: draw_frame calls
\* resolve_line with the snapshot, the poller writes the cache
InitRenderLive ==
    /\ InitRender
    /\ tpl \in WellFormed
    /\ rSnap \in {EmptySnap, Holding(<<"1", Dot, "2">>)}
    /\ gen.locale = DefaultLocale
NextRenderLive == NextRender \/ Poller
SpecRenderLive == InitRenderLive /\ [][NextRenderLive]_vars

\* ===================================================================
\* Claims
\* ===================================================================

\* C1: on one RTSP source with frame rate fps, the n-th need-data invocation
\* (n = 0, 1, ...) stamps pts n * (1e9 / fps) and duration 1e9 / fps;
\* timestamps start at zero and are strictly increasing, each exceeding the
\* previous one by exactly one frame duration.
C1_TimestampsStrictlyIncreasing ==
    \A m \in MediaIds : \A n \in 1..Len(pushed[m]) :
        /\ pushed[m][n].pts = (n - 1) * (NsPerSec \div fps)
        /\ pushed[m][n].duration = NsPerSec \div fps
        /\ n > 1 => /\ pushed[m][n].pts > pushed[m][n - 1].pts
                    /\ pushed[m][n].pts - pushed[m][n - 1].pts = NsPerSec \div fps

\* the law the counter does follow, for every accepted frame rate: after n
\* invocations it is n frame durations, and the n-th buffer carries the
\* value it had before
TimestampIsCallsTimesDuration ==
    \A m \in MediaIds :
        /\ mPc[m] # "render" => timestamp[m] = Len(pushed[m]) * FrameDuration(fps)
        /\ \A n \in 1..Len(pushed[m]) :
              /\ pushed[m][n].pts = (n - 1) * FrameDuration(fps)
              /\ pushed[m][n].duration = FrameDuration(fps)

\* C2: each RTSP client connection has its own timestamp counter: two
\* clients connected at the same time are never served from the same
\* counter.
C2_CounterPerClient ==
    \A k1, k2 \in ClientIds :
        (k1 # k2 /\ client[k1] = "connected" /\ client[k2] = "connected")
            => clientMedia[k1] # clientMedia[k2]

\* C3: a push_buffer failure is swallowed: the callback returns to waiting
\* for the next need-data and the timestamp counter advances by exactly one
\* frame duration, as after a successful push.
PushStep(m) == Len(pushed'[m]) = Len(pushed[m]) + 1

C3_PushFailureSwallowed ==
    [][\A m \in MediaIds :
          PushStep(m) =>
              /\ timestamp'[m] = timestamp[m] + FrameDuration(fps)
              /\ pushed'[m][Len(pushed'[m])].pts = timestamp[m]
              /\ mPc'[m] = "wait"]_vars

\* a failed push was followed by another invocation, stamped one frame later
C3_Witness ==
    \E m \in MediaIds :
        /\ fps = 5
        /\ Len(pushed[m]) = 2
        /\ pushed[m][1].res = "err"
        /\ pushed[m][2].pts = pushed[m][1].pts + FrameDuration(fps)
        /\ timestamp[m] = 2 * FrameDuration(fps)

\* C4: many readers or one writer: the write guard is never held together
\* with a read guard, only the poller writes, and every snapshot a consumer
\* copies out equals the whole cache as it was when the read guard was taken.
SnapshotOfOneInstant(pc, snap, atLock) ==
    /\ pc = "clone" =>
          /\ cache = atLock
          /\ \A k \in Sensors : snap[k] \in {Pending, atLock[k]}
    /\ pc \in {"gen", "render", "push"} => snap = atLock

C4_ReadersOrWriter ==
    /\ ~(writer /\ readers # {})
    /\ writer => pPc \in {"insert", "unlock"}
    /\ \A c \in MjIds : SnapshotOfOneInstant(mjPc[c], mjSnap[c], mjAtLock[c])
    /\ \A m \in MediaIds : SnapshotOfOneInstant(mPc[m], mSnap[m], mAtLock[m])

\* two consumers hold read guards at once while the poller waits in write()
C4_Witness ==
    /\ Cardinality(readers) >= 2
    /\ pPc = "write"
    /\ Keys(cache) # {}

\* C5: no lock guard is held across rendering, encoding, sleeping or the
\* network: a read guard is held only while the snapshot is copied, the
\* write guard only around the insert, after the fetch has returned.
C5_NoGuardAcrossSteps ==
    /\ \A c \in MjIds : MjReader(c) \in readers <=> mjPc[c] = "clone"
    /\ \A m \in MediaIds : MediaReader(m) \in readers <=> mPc[m] = "clone"
    /\ writer <=> pPc \in {"insert", "unlock"}

\* a frame is being generated from a copied snapshot while the poller holds
\* the write guard
C5_Witness ==
    /\ writer
    /\ \E c \in MjIds : mjPc[c] = "gen" /\ Keys(mjSnap[c]) # {}

\* C6: a failed fetch leaves the cache as it was and changes no consumer: a
\* sensor whose latest fetch failed still has the value of its last
\* successful fetch (or is still absent).
FetchErrStep ==
    /\ pPc = "fetch"
    /\ pPc' # "write"
    /\ <<pPc', pIdx'>> # <<pPc, pIdx>>

C6_FetchFailureKeepsCache ==
    /\ [][FetchErrStep => /\ cache' = cache
                          /\ lockVars' = lockVars
                          /\ mjVars' = mjVars
                          /\ rtspVars' = rtspVars]_vars
    /\ [](\A k \in fetchFailed : cache[k] = lastOk[k])

\* the latest fetch of a sensor failed, its stale value is still cached and
\* a frame is about to be generated from a snapshot that shows it
C6_Witness ==
    \E k \in fetchFailed :
        /\ cache[k] # None
        /\ \E c \in MjIds : mjPc[c] = "gen" /\ mjSnap[c][k] = cache[k]

\* C7 as stated: a key's value is always the value of the most recent
\* successful fetch of that id.
C7_ValueIsLatestFetch ==
    \A k \in Keys(cache) : cache[k] = lastOk[k]

\* C7 as amended: no key is ever removed, and a key's value is the value of
\* the most recent successful fetch of that id once the poller has inserted
\* it; between that fetch's return and the insert the key keeps its
\* previous value.
InsertPending(k) ==
    /\ pPc \in {"write", "insert"}
    /\ watch[pIdx] = k
    /\ pVal = lastOk[k]

C7_NoEvictionLastWriteWins ==
    /\ [](\A k \in Sensors : lastOk[k] # None =>
              \/ cache[k] = lastOk[k]
              \/ InsertPending(k))
    /\ [][Keys(cache) \subseteq Keys(cache')]_vars

\* a key was overwritten by a later fetch while the other key kept its value
C7_Witness ==
    /\ \A k \in Sensors : cache[k] # None /\ cache[k] = lastOk[k]
    /\ cache[1] # cache[2]
    /\ pPc = "sleep"

\* C8: a failed frame generation emits nothing on that tick and leaves the
\* consumer Streaming at the tick; every successful generation emits one
\* three-chunk frame, also after failures.
GenStep(c) == Len(genLog'[c]) = Len(genLog[c]) + 1

C8_FailedTickSkipped ==
    /\ [][\A c \in MjIds :
            (GenStep(c) /\ genLog'[c][Len(genLog'[c])] = "err") =>
                /\ out'[c] = out[c]
                /\ mjPc'[c] = "tick"
                /\ closedBy'[c] = closedBy[c]]_vars
    /\ [](\A c \in MjIds :
            mjPc[c] = "tick" => Len(out[c]) = 3 * CountOk(genLog[c]))

\* a consumer whose first tick failed emitted a frame on its second tick
C8_Witness ==
    \E c \in MjIds :
        /\ genLog[c] = <<"err", "ok">>
        /\ mjPc[c] = "tick"
        /\ Len(out[c]) = 3

\* C9: a consumer's byte stream is a sequence of frames, each the part
\* header, then the image, then the delimiter; the announced Content-Length
\* is the length of the image chunk that follows.
ChunkInPlace(o, i) ==
    IF i % 3 = 1 THEN o[i].kind = "header"
    ELSE IF i % 3 = 2
         THEN o[i].kind = "image" /\ o[i].len = o[i - 1].len /\ o[i].len \in JpegLens
         ELSE o[i].kind = "delim"

C9_ThreeChunksInOrder ==
    \A c \in MjIds :
        /\ \A i \in 1..Len(out[c]) : ChunkInPlace(out[c], i)
        /\ mjPc[c] \in {"tick", "lock", "clone", "gen"} => Len(out[c]) % 3 = 0
        /\ mjPc[c] = "yield_header" => Len(out[c]) % 3 = 0
        /\ mjPc[c] = "yield_image" => Len(out[c]) % 3 = 1
        /\ mjPc[c] = "yield_delim" => Len(out[c]) % 3 = 2

\* two frames of different sizes were emitted to one consumer
C9_Witness ==
    \E c \in MjIds :
        /\ Len(out[c]) = 6
        /\ out[c][1].len # out[c][4].len

\* C10: a consumer moves only Idle -> Streaming -> Closed, leaves Streaming
\* only because the consumer went away, and never emits once Closed.
C10_IdleStreamingClosed ==
    [][\A c \in MjIds :
          /\ MjState(c) # MjState(c)' =>
                \/ MjState(c) = "Idle" /\ MjState(c)' = "Streaming"
                \/ /\ MjState(c) = "Streaming" /\ MjState(c)' = "Closed"
                   /\ closedBy'[c] = "consumer"
          /\ MjState(c) = "Closed" => out'[c] = out[c] /\ genLog'[c] = genLog[c]]_vars

\* what belongs to MJPEG consumer d: its stream state and the chunks it got
MjOwn(d) == <<mjPc[d], mjSnap[d], mjAtLock[d], mjFrame[d], genLog[d], out[d], closedBy[d]>>

\* what RTSP client k is served from: the callback position, the counter and
\* the buffers of the media it is attached to
ClientOwn(k) ==
    IF client[k] = "connected"
    THEN <<client[k], mPc[clientMedia[k]], timestamp[clientMedia[k]], pushed[clientMedia[k]]>>
    ELSE <<client[k]>>

\* consumer c's frame generation fails, or its stream ends
MjFailStep(c) ==
    \/ GenStep(c) /\ genLog'[c][Len(genLog'[c])] = "err"
    \/ mjPc[c] # "closed" /\ mjPc'[c] = "closed"

\* a push fails on the path that serves client k, or client k leaves
ClientFailStep(k) ==
    /\ client[k] = "connected"
    /\ \/ /\ PushStep(clientMedia[k])
          /\ pushed'[clientMedia[k]][Len(pushed'[clientMedia[k]])].res = "err"
       \/ client'[k] = "gone"

\* the MJPEG half of C11: a failed generation or the end of one consumer's
\* stream leaves the cache, the lock and every other consumer as they were
MjConsumersIndependent ==
    [][\A c \in MjIds :
          MjFailStep(c) =>
              /\ cache' = cache
              /\ lockVars' = lockVars
              /\ \A d \in MjIds \ {c} : MjOwn(d)' = MjOwn(d)]_vars

\* C11: with several consumers connected, a frame-generation failure, a push
\* failure or a disconnect in one consumer's path leaves the state, the
\* schedule and the emitted frames of every other consumer unchanged, and
\* leaves the cache unchanged and readable.
C11_ConsumersIndependent ==
    /\ MjConsumersIndependent
    /\ [][\A k \in ClientIds :
            ClientFailStep(k) =>
                /\ cache' = cache
                /\ lockVars' = lockVars
                /\ \A j \in ClientIds \ {k} : ClientOwn(j)' = ClientOwn(j)]_vars

\* the font cannot be loaded, or (RTSP) the encoding pipeline cannot be built
StartupFault == "font" \in faults \/ (mode = "rtsp" /\ "launch" \in faults)

\* C12: if loading the font or constructing the encoding pipeline fails, the
\* process fails at startup and never serves a stream: it never reaches
\* service, no MJPEG consumer enters Streaming, no RTSP session receives a
\* frame, and when the process has ended it has reported a failure.
C12_FailedStartupNeverServes ==
    StartupFault =>
        /\ phase # "serving"
        /\ \A c \in MjIds : MjState(c) # "Streaming"
        /\ \A m \in MediaIds : pushed[m] = <<>>
        /\ phase = "exited" => exitStatus = "failure"

\* a match of either regex starts at position i of the text
PlaceholderAt(s, i) == TimeMatchEnd(s, i) # 0 \/ SensorMatchEnd(s, i) # 0

\* C13: for every template and every snapshot, the resolved line contains no
\* placeholder syntax: neither a {time:...} nor a {sensor....} token is left
\* in the text resolve_line returns.
C13_NoPlaceholderLeft ==
    rPc = "done" => \A i \in 1..Len(rAcc) : ~PlaceholderAt(Text(rAcc), i)

\* what does hold: in a well-formed template, one made of whole
\* placeholders and literal text, with values free of braces, nothing is left
WellFormedResolved ==
    (rPc = "done" /\ tpl \in WellFormed)
        => \A i \in 1..Len(rAcc) : ~PlaceholderAt(Text(rAcc), i)

\* C14: the time pass runs first and the sensor pass second, and text that
\* a substitution produced is never read as a placeholder or as part of one:
\* when the sensor pass starts the time pass has consumed its input, and
\* every match the sensor pass finds lies wholly in text of the template.
C14_NoNestedExpansion ==
    rPc = "sensor" =>
        /\ rIn = <<>>
        /\ \A i \in 1..Len(rAcc) :
              SensorMatchEnd(Text(rAcc), i) # 0 =>
                  \A p \in i..SensorMatchEnd(Text(rAcc), i) : ~rAcc[p].sub

\* the value with its first decimal point replaced by a comma
FirstDotToComma(v) ==
    [i \in 1..Len(v) |->
        IF v[i] = Dot /\ \A j \in 1..(i - 1) : v[j] # Dot THEN Comma ELSE v[i]]

\* C15: for a value present in the snapshot, under a comma-decimal locale
\* the substituted text is the value with exactly its first decimal point
\* replaced by a comma when the value parses as a number, and the value
\* itself otherwise (text, or two or more dots); under any other locale the
\* value is substituted unchanged.
C15_DecimalSeparator ==
    (rPc = "done" /\ tpl = OnlySensorA /\ SensorA \in DOMAIN rSnap) =>
        LET v == rSnap[SensorA]
            res == Text(rAcc)
        IN IF GetDecimalSeparator(gen.locale) = Comma
           THEN /\ ParsesF64(v) => res = FirstDotToComma(v)
                /\ ~ParsesF64(v) => res = v
                /\ DotCount(v) >= 2 => res = v
                /\ (\E i \in 1..Len(v) : v[i] = "a") => res = v
           ELSE res = v

\* 1.1 under sv_SE has come out as 1,1
C15_Witness ==
    /\ rPc = "done"
    /\ tpl = OnlySensorA
    /\ gen.locale = <<"s", "v", "_", "S", "E">>
    /\ rSnap = Holding(<<"1", Dot, "1">>)
    /\ Text(rAcc) = <<"1", Comma, "1">>

\* the template is one sensor placeholder and nothing else
OnlySensorPlaceholder(t) == Len(t) >= 3 /\ SensorMatchEnd(t, 1) = Len(t)

\* C16: for every snapshot and every template that is only a sensor
\* placeholder for an id absent from the snapshot, resolve_line returns the
\* literal ?, under every locale.
C16_AbsentIsQuestionMark ==
    (rPc = "done" /\ OnlySensorPlaceholder(tpl)
        /\ (<<SensorPrefix>> \o SubSeq(tpl, 2, Len(tpl) - 1)) \notin DOMAIN rSnap)
            => Text(rAcc) = <<Missing>>

\* {sensor.a} resolved against the empty snapshot under a comma locale
C16_Witness ==
    /\ rPc = "done"
    /\ tpl = OnlySensorA
    /\ rSnap = EmptySnap
    /\ gen.decimal_separator = Comma
    /\ Text(rAcc) = <<Missing>>

\* C17: all time placeholders of one line, resolved in one call, are
\* formatted from the same instant, the one captured when the call started:
\* the captured instant does not change during the call, every time
\* substitution used it and every formatted time in the text shows it,
\* whatever the clock and the cache did meanwhile.
C17_OneInstantPerLine ==
    /\ [](rPc \in {"time", "sensor"} =>
            /\ \A i \in 1..Len(rUsed) : rUsed[i] = rNow
            /\ \A p \in 1..Len(rAcc) :
                  (rAcc[p].sub /\ rAcc[p].t \in Digits) => rAcc[p].t = DigitOf[rNow])
    /\ [][rPc # "idle" => rNow' = rNow]_vars

\* one time placeholder is resolved, another is still to come, and both the
\* clock and the cache have moved since the call started
C17_Witness ==
    /\ rPc = "time"
    /\ Len(rUsed) = 1
    /\ FirstTimeMatch(Text(rIn), 1) # 0
    /\ clock > rNow
    /\ Keys(cache) # {}

\* the ids the lines refer to: sensor. followed by a non-empty run of
\* [\w.] that stands between `{sensor.` and `}` somewhere in a line
ReferencedIds(ls) ==
    UNION {{<<SensorPrefix>> \o SubSeq(ls[n], x[1] + 1, x[2] - 1) :
                x \in {y \in (1..Len(ls[n])) \X (1..Len(ls[n])) :
                          /\ y[1] + 1 < y[2]
                          /\ ls[n][y[1]] = OpenSensor
                          /\ ls[n][y[2]] = Close
                          /\ \A p \in (y[1] + 1)..(y[2] - 1) : IdChar(ls[n][p])}} :
           n \in 1..Len(ls)}

\* C18: get_required_sensors returns exactly the distinct full entity ids of
\* the sensor placeholders in the configured lines: every referenced id once,
\* nothing else, in ascending order.
C18_RequiredSensors ==
    phase # "config" =>
        /\ \A n \in 1..(Len(required) - 1) : LexLess(required[n], required[n + 1])
        /\ {required[n] : n \in 1..Len(required)} = ReferencedIds(lines)

\* the lines name sensor.b before sensor.a and the result lists a before b
C18_Witness ==
    /\ phase # "config"
    /\ lines = <<<<OpenSensor, "b", Close>>, <<OpenSensor, "a", Close>>>>
    /\ required = <<<<SensorPrefix, "a">>, <<SensorPrefix, "b">>>>

\* C19: every frame a consumer receives is rendered from exactly one cache
\* snapshot taken during that same tick or callback invocation, after the tick
\* fired and before the frame is emitted; all lines of the frame are resolved
\* against that one snapshot, and no frame or snapshot of an earlier tick or
\* of another consumer is reused.
MjFrameInHand(c) == mjPc[c] \in {"yield_header", "yield_image", "yield_delim"}

\* one whole snapshot per frame, taken in the cycle that draws the frame, and
\* neither snapshot nor frame carried from one cycle into the next
FrameFromCycleSnapshot ==
    /\ \A c \in MjIds :
          /\ mjStale[c] = {}
          /\ mjPc[c] = "gen" =>
                /\ mjSnap[c] = mjAtLock[c]
                /\ \A k \in Sensors : mjSnap[c][k] # Pending
          /\ mjPc[c] \notin {"clone", "gen"} =>
                /\ mjSnap[c] = EmptyMap
                /\ mjAtLock[c] = NoSnapshot
          /\ ~MjFrameInHand(c) => mjFrame[c] = 0
    /\ \A m \in MediaIds :
          /\ mStale[m] = {}
          /\ mPc[m] \in {"render", "push"} =>
                /\ mSnap[m] = mAtLock[m]
                /\ \A k \in Sensors : mSnap[m][k] # Pending
          /\ mPc[m] \notin {"clone", "render", "push"} =>
                /\ mSnap[m] = EmptyMap
                /\ mAtLock[m] = NoSnapshot

\* a buffer about to be pushed goes to one RTSP client only
FrameForOneConsumer ==
    \A m \in MediaIds : mPc[m] = "push" => Cardinality(Connected(m)) <= 1

C19_FrameFromOneFreshSnapshot ==
    /\ FrameFromCycleSnapshot
    /\ FrameForOneConsumer

\* C20: the renderer is built from the startup configuration and never
\* changes afterwards: once built, its decimal separator is the one derived
\* from the configured locale tag and its font size is the configured font
\* size.
C20_RendererFromConfig ==
    /\ [](gen.built =>
            /\ gen.decimal_separator = GetDecimalSeparator(locale)
            /\ gen.font_size = fontSize)
    /\ [][gen.built => gen' = gen]_vars

\* C21: in each poll cycle the poller fetches every watched sensor exactly
\* once, in the sorted order of the watch list; a failed fetch of one sensor
\* does not stop the remaining sensors of that cycle from being fetched and
\* written, and the next cycle starts only after the sleep that follows the
\* last sensor of the cycle.
Fetched == IF pPc = "fetch" THEN pIdx - 1 ELSE pIdx

\* the entries fetched in this cycle are the first entries of the list, each
\* once and in the order of the list, which is ascending
CycleInListOrder ==
    /\ pIdx \in 1..Len(watch)
    /\ pCycle = SubSeq(watch, 1, Fetched)
    /\ \A i \in 1..(Len(watch) - 1) : watch[i] < watch[i + 1]
    /\ pPc = "sleep" => pCycle = watch
    /\ pPc = "unlock" => cache[watch[pIdx]] = pVal

\* a step that leaves a list entry: after a failed fetch, or after the write
\* of a fetched value
LeavesEntry ==
    \/ pIdx' # pIdx
    \/ pPc' = "sleep" /\ pPc # "sleep"

C21_CycleFetchesAllInOrder ==
    /\ [](watch # <<>> => CycleInListOrder)
    /\ [][LeavesEntry =>
            /\ pPc \in {"fetch", "unlock", "sleep"}
            /\ pPc \in {"fetch", "unlock"} =>
                  IF pIdx < Len(watch)
                  THEN pPc' = "fetch" /\ pIdx' = pIdx + 1 /\ pCycle' = pCycle \o
                           (IF pPc = "fetch" THEN <<watch[pIdx]>> ELSE <<>>)
                  ELSE pPc' = "sleep"
            /\ pPc = "sleep" => pCycle = watch /\ pIdx' = 1 /\ pCycle' = <<>>]_vars
    /\ [][pCycle' = <<>> /\ pCycle # <<>> => pPc = "sleep" /\ pPc' = "fetch"]_vars

\* the cycle is complete, the fetch of the first sensor failed in it and the
\* value fetched for the second one in it is in the cache
C21_Witness ==
    /\ watch = <<1, 2>>
    /\ pPc = "sleep"
    /\ pCycle = watch
    /\ 1 \in fetchFailed /\ cache[1] = None
    /\ 2 \notin fetchFailed /\ cache[2] = lastOk[2] /\ cache[2] # None

\* C22: for every accepted frame rate fps >= 1 the MJPEG tick period
\* (1000 / fps ms) and the RTSP frame duration (1e9 / fps ns, fps narrowed to
\* i32 and widened back) are both strictly positive, so the tick timer is
\* valid and successive RTSP timestamps differ.
C22_PeriodsPositive ==
    fps >= 1 =>
        /\ TickPeriodMs(fps) > 0
        /\ FrameDuration(fps) > 0
        /\ \A c \in MjIds : closedBy[c] # "panic"
        /\ \A m \in MediaIds : \A n \in 1..(Len(pushed[m]) - 1) :
              pushed[m][n + 1].pts # pushed[m][n].pts

\* C23: the poller is the only writer of the cache: an MJPEG tick and an RTSP
\* need-data invocation leave the cache unchanged, and every key ever present
\* in the cache is a member of the watch list computed once at startup (with
\* an empty watch list no poller runs and the cache stays empty forever).
Watched == {watch[i] : i \in 1..Len(watch)}

PollerIdle == pPc = "fetch" /\ pIdx = 1 /\ pCycle = <<>> /\ ~writer

C23_OnlyPollerWrites ==
    /\ [](/\ Keys(cache) \subseteq Watched
          /\ Keys(lastOk) \cup fetchFailed \subseteq Watched
          /\ watch = <<>> => cache = EmptyMap /\ PollerIdle)
    /\ [][/\ watch' = watch
          /\ cache' # cache =>
                /\ pPc = "insert" /\ pPc' = "unlock" /\ writer
                /\ \A k \in Sensors \ {watch[pIdx]} : cache'[k] = cache[k]
          /\ (mjVars' # mjVars \/ rtspVars' # rtspVars) => cache' = cache]_vars

\* only the second sensor is watched and cached, and a consumer has been
\* handed a frame
C23_Witness ==
    /\ watch = <<2>>
    /\ Keys(cache) = {2}
    /\ \/ \E c \in MjIds : out[c] # <<>>
       \/ \E m \in MediaIds : pushed[m] # <<>>

\* C24: under fair scheduling of the poller and the consumers, if a fetch of a
\* watched sensor succeeds with value v and no later fetch of that sensor
\* succeeds, then every MJPEG consumer that stays in Streaming eventually
\* emits a frame rendered from a snapshot that maps that sensor to v, and
\* every later frame of that consumer is rendered from such a snapshot too.
FrameInHand(c) == mjPc[c] \in {"yield_header", "yield_image", "yield_delim"}
Renders(c) == mjPc[c] = "gen" \/ FrameInHand(c)
LatestIs(s, v) == <>[](lastOk[s] = v)
StaysStreaming(c) == <>[](MjState(c) = "Streaming")

C24_EventuallyEmitsLatest ==
    \A c \in MjIds, s \in Sensors, v \in Values :
        (LatestIs(s, v) /\ StaysStreaming(c)) =>
            /\ []<>(FrameInHand(c) /\ mjSnap[c][s] = v)
            /\ <>[](FrameInHand(c) => mjSnap[c][s] = v)

\* what does hold.  Fair scheduling does not make write() return: read guards
\* that overlap keep the poller waiting, and the lock promises no priority to
\* a waiting writer.  If the poller does not wait for the lock for ever, the
\* consumer keeps ticking, from some tick on every snapshot it renders from
\* maps the sensor to v, and so does the snapshot of every frame it emits
\* from then on; frames are emitted again and again if generate_frame
\* succeeds again and again.
WriteGranted == []<>(pPc # "write")

C24_RendersLatestFromSomeTickOn ==
    \A c \in MjIds, s \in Sensors, v \in Values :
        (LatestIs(s, v) /\ StaysStreaming(c) /\ WriteGranted) =>
            /\ []<>(mjPc[c] = "gen")
            /\ <>[](Renders(c) => mjSnap[c][s] = v)
            /\ []<>(FrameInHand(c)) => []<>(FrameInHand(c) /\ mjSnap[c][s] = v)

\* a frame is in hand that shows the value of the last successful fetch of a
\* sensor whose later fetch failed
C24_Witness ==
    \E c \in MjIds, s \in Sensors :
        /\ mjPc[c] = "yield_header"
        /\ s \in fetchFailed
        /\ lastOk[s] # None
        /\ mjSnap[c][s] = lastOk[s]
        /\ pPc = "sleep"

====
